---- MODULE Spec2Model ----
(***************************************************************************)
(* Model of the FMP data-collection client (fmp_client.py) and of the      *)
(* configuration module (config.py) it imports.                            *)
(*                                                                         *)
(* One behaviour is one execution of the process: the configuration is     *)
(* loaded, the client is constructed, fetch_all_data runs over a symbol    *)
(* list.  Every call of the fetch primitive _get is one step; the remote   *)
(* service answers each call with any of the Responses.  pandas is         *)
(* modelled by what the code uses of it: the DataFrame constructor, the    *)
(* .empty test, column assignment, concat, len and to_csv.                 *)
(***************************************************************************)
EXTENDS Integers, Sequences, FiniteSets

(* ---------------------------- bounds ----------------------------------- *)

\* longest symbol list passed to fetch_all_data
MaxSyms == 3
\* longest "historical" array the remote service answers with
MaxRows == 2

(* ------------------------- values and inputs --------------------------- *)

\* the tickers symbol lists are drawn from
Tickers == <<"A", "B", "C", "D", "E">>

\* fetch_all_data(symbols): the lists <<>>, <<A>>, <<A,B>>, ... and one list
\* that names the same symbol twice
SymbolLists ==
    {SubSeq(Tickers, 1, n) : n \in 0..MaxSyms} \cup {<<"A", "A">>}

\* FMP_API_KEY in the environment: unset (None), set to "", set to a key
NoCred == "unset"
Creds == {NoCred, "", "key"}

\* the value of the symbol field of a record that carries none
NoSym == "-"
\* a symbol field set by the remote service, never a symbol that is queried
SrvSym == "ZZZ"

\* One element of a JSON array: a JSON object (isrec) with a symbol field
\* and possibly a numeric price field, or a JSON scalar.  k tells the
\* elements of one array apart (the date of a historical record).
Rec(n, s, p) == [isrec |-> TRUE, k |-> n, symbol |-> s, price |-> p]
Scalar == [isrec |-> FALSE, k |-> 0, symbol |-> NoSym, price |-> FALSE]

\* the records of a "historical" array of length n: some carry a symbol
\* field of their own, some carry none
HistItems(n) == [j \in 1..n |-> Rec(j, IF j = 1 THEN NoSym ELSE SrvSym, FALSE)]

\* What _get can hand to its caller.
\*   none   : Python None
\*   null   : a falsy JSON value ([] or {} or null)
\*   array  : a non-empty JSON array of items
\*   object : a non-empty JSON object; hist says whether it has the key
\*            'historical' ("absent"), and whether its value is a scalar
\*            ("scalar") or the array items ("array")
None == [kind |-> "none", hist |-> "absent", items |-> <<>>]
Null == [kind |-> "null", hist |-> "absent", items |-> <<>>]
Arr(its) == [kind |-> "array", hist |-> "absent", items |-> its]
Obj(h, its) == [kind |-> "object", hist |-> h, items |-> its]

\* a one-row quote or profile array, as the service answers for a symbol
QuoteArr == Arr(<<Rec(1, SrvSym, TRUE)>>)
\* a one-row quote array whose record has no price field
QuoteNoPrice == Arr(<<Rec(1, SrvSym, FALSE)>>)
\* an object of scalar values only, e.g. {"Error Message": "..."}
ObjScalars == Obj("absent", <<>>)
\* {"symbol": ..., "historical": [...]} with n records
ObjHist(n) == Obj("array", HistItems(n))
\* {"historical": "..."}: the key is there, its value is no array
ObjHistScalar == Obj("scalar", <<>>)

\* The JSON bodies a successful call of an endpoint is answered with: the
\* shapes of that endpoint, an empty value, and an error object.
Bodies(ep) ==
    CASE ep = "profile" -> {Null, QuoteArr, ObjScalars}
      [] ep = "quote" -> {Null, QuoteArr, QuoteNoPrice, ObjScalars}
      [] ep = "historical" ->
           {Null, QuoteArr, ObjScalars, ObjHistScalar, ObjHist(0),
            ObjHist(MaxRows)}
      [] OTHER -> {Null, QuoteArr, ObjScalars}

\* One answer of the remote service to session.get:
\*   ok        : 2xx with a JSON body
\*   forbidden : 403
\*   error     : another 4xx/5xx status
\*   network   : session.get raises a RequestException
\*   badjson   : 2xx whose body is no JSON (response.json() raises
\*               requests.exceptions.JSONDecodeError, a RequestException)
Responses(ep) ==
    {[status |-> "ok", body |-> b] : b \in Bodies(ep)}
        \cup {[status |-> s, body |-> Null] :
                 s \in {"forbidden", "error", "network", "badjson"}}

\* the four output files under Config.RAW_DATA_PATH
Files == {"market_indexes.csv", "company_profiles.csv",
          "current_quotes.csv", "historical_prices.csv"}
CategoryFiles == Files \ {"market_indexes.csv"}

\* the three index tickers of get_market_indexes
indexes == <<"^GSPC", "^DJI", "^IXIC">>

(* ------------------------------ pandas --------------------------------- *)

\* A table (DataFrame) is the sequence of its rows; a row has the shape of
\* an item.  A constructor call either raises (exc) or yields rows.
Frame(rs) == [exc |-> FALSE, rows |-> rs]
Raises == [exc |-> TRUE, rows |-> <<>>]
EmptyFrame == Frame(<<>>)

\* the row made of one cell that is not spread into columns
Cell(it, s) == [isrec |-> FALSE, k |-> it.k, symbol |-> s, price |-> FALSE]

\* pd.DataFrame(list): a list of JSON objects gives one row per object, the
\* keys being the columns; when the first element is an object and another
\* one is not, the constructor raises (AttributeError: no attribute 'keys');
\* when the first element is a scalar the list is one column of cells.
FrameOfList(its) ==
    IF its = <<>> THEN EmptyFrame
    ELSE IF its[1].isrec
         THEN IF \E j \in 1..Len(its) : ~its[j].isrec
              THEN Raises
              ELSE Frame(its)
         ELSE Frame([j \in 1..Len(its) |-> Cell(its[j], NoSym)])

\* pd.DataFrame(dict): raises ValueError when every value is a scalar;
\* with an array among the values there is one row per array element and
\* the scalar values (the top-level symbol) are repeated on every row.
FrameOfDict(d) ==
    IF d.hist = "array"
    THEN Frame([j \in 1..Len(d.items) |-> Cell(d.items[j], SrvSym)])
    ELSE Raises

\* pd.DataFrame(data) for the truthy values _get returns
DataFrame(data) ==
    IF data.kind = "array" THEN FrameOfList(data.items) ELSE FrameOfDict(data)

\* df.empty
IsEmpty(rows) == rows = <<>>

\* df['symbol'] = symbol
SetSymbol(rows, symbol) ==
    [j \in 1..Len(rows) |-> [rows[j] EXCEPT !.symbol = symbol]]

\* f"{quote['price'].iloc[0]:.2f}": KeyError when no row has a price
PriceFormats(rows) == \E j \in 1..Len(rows) : rows[j].price

\* pd.concat(tables, ignore_index=True)
RECURSIVE Concat(_)
Concat(ts) == IF ts = <<>> THEN <<>> ELSE Head(ts).rows \o Concat(Tail(ts))

\* to_csv(path, index=False): a header line, then one line per row
HeaderLine == [isrec |-> FALSE, k |-> 0, symbol |-> "header", price |-> FALSE]
ToCsv(rows) == <<HeaderLine>> \o rows
\* the rows of a file read back
CsvRows(lines) == Tail(lines)

\* a path on disk: no file, or a file of lines
NoFile == [exists |-> FALSE, lines |-> <<>>]
File(ls) == [exists |-> TRUE, lines |-> ls]

(* ------------------------------ config.py ------------------------------ *)

\* a validation that tests the key against None only
HasKeyNotNone(c) == c # NoCred

\* `if not Config.FMP_API_KEY`: None and "" are falsy
HasKey(c) == c # NoCred /\ c # ""

(* ------------------------------- _get ---------------------------------- *)

\* bool(data) of a value returned by _get
Truthy(data) == data.kind \in {"array", "object"}

\* a _get without its `except`: an error status or a network failure leaves
\* it as an exception
GetPropagating(r) ==
    CASE r.status = "ok" ->
           [ret |-> r.body, logged |-> FALSE, slept |-> TRUE, exc |-> FALSE]
      [] r.status = "forbidden" ->
           [ret |-> None, logged |-> FALSE, slept |-> FALSE, exc |-> FALSE]
      [] r.status = "badjson" ->
           [ret |-> None, logged |-> FALSE, slept |-> TRUE, exc |-> TRUE]
      [] OTHER ->
           [ret |-> None, logged |-> FALSE, slept |-> FALSE, exc |-> TRUE]

\* What one call of _get does with the answer r of the service:
\*   ret    : the value returned
\*   logged : "Error fetching ..." was printed
\*   slept  : time.sleep(0.3) was executed
\*   exc    : an exception left _get
Get(r) ==
    CASE r.status = "ok" ->
           [ret |-> r.body, logged |-> FALSE, slept |-> TRUE, exc |-> FALSE]
      [] r.status = "forbidden" ->
           [ret |-> None, logged |-> FALSE, slept |-> FALSE, exc |-> FALSE]
      [] r.status = "badjson" ->
           [ret |-> None, logged |-> TRUE, slept |-> TRUE, exc |-> FALSE]
      [] OTHER ->
           [ret |-> None, logged |-> TRUE, slept |-> FALSE, exc |-> FALSE]

(* ----------------------------- adapters -------------------------------- *)

\* get_company_profile
ProfileFrame(data) == IF Truthy(data) THEN DataFrame(data) ELSE EmptyFrame

\* get_quote
QuoteFrame(data) == IF Truthy(data) THEN DataFrame(data) ELSE EmptyFrame

\* 'historical' in data: a key of the object; for an array, membership of
\* the string among the elements, which no item of the model is
HasHistorical(data) == data.kind = "object" /\ data.hist # "absent"

\* pd.DataFrame(data['historical'])
HistoricalValueFrame(data) ==
    IF data.hist = "array" THEN FrameOfList(data.items) ELSE Raises

\* a get_historical_prices that leaves the symbol column as the service
\* sent it
HistoricalFrameUnstamped(data, symbol) ==
    IF Truthy(data) /\ HasHistorical(data)
    THEN HistoricalValueFrame(data)
    ELSE EmptyFrame

\* get_historical_prices
HistoricalFrame(data, symbol) ==
    IF Truthy(data) /\ HasHistorical(data)
    THEN LET f == HistoricalValueFrame(data)
         IN  IF f.exc THEN Raises ELSE Frame(SetSymbol(f.rows, symbol))
    ELSE EmptyFrame

\* all_data.extend(data): the elements of an array, the keys of an object
Extension(data) == IF data.kind = "array" THEN data.items ELSE <<Scalar>>

\* pd.DataFrame(all_data) if all_data else pd.DataFrame()
IndexFrame(items) == IF items # <<>> THEN FrameOfList(items) ELSE EmptyFrame

(* ------------------------------- state --------------------------------- *)

VARIABLES
    pc,              \* where the process is (see Phases)
    cred,            \* FMP_API_KEY as found in the environment
    client,          \* TRUE once FMPClient() has been constructed
    symbols,         \* the list fetch_all_data iterates
    i,               \* 1-based position of the loop in symbols
    all_profiles,    \* accumulators: sequences of [pos, rows], pos being
    all_quotes,      \*   the list position whose iteration appended rows
    all_historical,
    all_data,        \* get_market_indexes: the flattened index quotes
    idx,             \* 1-based position in indexes
    market_indexes,  \* the market-index table
    disk,            \* Files -> NoFile or File(lines)
    disk0,           \* the disk as the process found it
    written,         \* the files this run has written
    summary,         \* the value fetch_all_data returned
    last,            \* the call of _get the latest step made, if any, and
                     \*   what its caller made of the result
    requested,       \* TRUE once session.get has been called
    only403          \* TRUE while every call so far was answered 403

vars == <<pc, cred, client, symbols, i, all_profiles, all_quotes,
          all_historical, all_data, idx, market_indexes, disk, disk0,
          written, summary, last, requested, only403>>

\* boot          : process start, config.py not yet imported
\* config_failed : config.py raised ValueError
\* configured    : config.py imported, no client yet
\* ready         : client constructed, fetch_all_data not started
\* profile, quote, historical : iterating symbols, about to fetch this one
\* indexes       : fetching the market indexes
\* persist       : about to write the three combined tables
\* done          : fetch_all_data returned its summary
\* raised        : an exception left fetch_all_data
Phases == {"boot", "config_failed", "configured", "ready", "profile",
           "quote", "historical", "indexes", "persist", "done", "raised"}

NoSummary == [returned |-> FALSE, profiles |-> 0, quotes |-> 0,
              historical_records |-> 0]

NoCall == [ep |-> "none", pos |-> 0, status |-> "none", absent |-> FALSE,
           logged |-> FALSE, slept |-> FALSE, exc |-> FALSE, out |-> "none"]

\* The record of one call: endpoint, position, the service's answer, what
\* _get did (g) and what the caller made of the result:
\*   rows, empty  : the adapter returned a table with, without rows
\*   raise        : the adapter raised
\*   print_raise  : the table was appended, the print of its price raised
\*   extended, skipped : get_market_indexes extended all_data, or did not
Call(ep, pos, r, g, out) ==
    [ep |-> ep, pos |-> pos, status |-> r.status, absent |-> g.ret = None,
     logged |-> g.logged, slept |-> g.slept, exc |-> g.exc, out |-> out]

Outcome(f) ==
    IF f.exc THEN "raise" ELSE IF IsEmpty(f.rows) THEN "empty" ELSE "rows"

\* a disk with no output file
FreshDisk == [f \in Files |-> NoFile]

\* the files an earlier execution over <<"A">> left behind
LeftoverDisk ==
    [f \in Files |->
        IF f = "historical_prices.csv"
        THEN File(ToCsv(HistoricalFrame(ObjHist(MaxRows), "A").rows))
        ELSE File(ToCsv(DataFrame(QuoteArr).rows))]

Init ==
    /\ pc = "boot"
    /\ cred \in Creds
    /\ client = FALSE
    /\ symbols = <<>>
    /\ i = 1
    /\ all_profiles = <<>>
    /\ all_quotes = <<>>
    /\ all_historical = <<>>
    /\ all_data = <<>>
    /\ idx = 1
    /\ market_indexes = <<>>
    /\ disk \in {FreshDisk, LeftoverDisk}
    /\ disk0 = disk
    /\ written = {}
    /\ summary = NoSummary
    /\ last = NoCall
    /\ requested = FALSE
    /\ only403 = TRUE

(* ------------------------------ startup -------------------------------- *)

\* import config: the class body, then the API-key validation
LoadConfig ==
    /\ pc = "boot"
    /\ pc' = IF HasKey(cred) THEN "configured" ELSE "config_failed"
    /\ UNCHANGED <<cred, client, symbols, i, all_profiles, all_quotes,
                   all_historical, all_data, idx, market_indexes, disk,
                   disk0, written, summary, last, requested, only403>>

\* client = FMPClient()
NewClient ==
    /\ pc = "configured"
    /\ client' = TRUE
    /\ pc' = "ready"
    /\ UNCHANGED <<cred, symbols, i, all_profiles, all_quotes,
                   all_historical, all_data, idx, market_indexes, disk,
                   disk0, written, summary, last, requested, only403>>

(* --------------------------- fetch_all_data ---------------------------- *)

\* where the for loop goes when it is at position j of a list of length n
LoopPc(j, n) == IF j <= n THEN "profile" ELSE "indexes"

\* an `except` that leaves the loop
AfterExceptionBreak(j, n) == n + 1

\* an `except` that tries the same symbol again
AfterExceptionRetry(j, n) == j

\* the position the loop moves to once `except Exception` has handled an
\* exception raised at position j of a list of length n
AfterException(j, n) == j + 1

\* all_x.append(df), guarded by `if not df.empty`
Appended(acc, f, pos) ==
    IF ~f.exc /\ ~IsEmpty(f.rows)
    THEN Append(acc, [pos |-> pos, rows |-> f.rows])
    ELSE acc

\* fetch_all_data(symbols) up to the for loop
StartFetch(syms) ==
    /\ pc = "ready"
    /\ client
    /\ symbols' = syms
    /\ i' = 1
    /\ all_profiles' = <<>>
    /\ all_quotes' = <<>>
    /\ all_historical' = <<>>
    /\ pc' = LoopPc(1, Len(syms))
    /\ UNCHANGED <<cred, client, all_data, idx, market_indexes, disk, disk0,
                   written, summary, last, requested, only403>>

\* what every call of _get does to the bookkeeping of the calls
Fetched(ep, pos, r, g, out) ==
    /\ last' = Call(ep, pos, r, g, out)
    /\ requested' = TRUE
    /\ only403' = (only403 /\ r.status = "forbidden")

\* `except Exception as e:` then the next iteration
Catch ==
    /\ i' = AfterException(i, Len(symbols))
    /\ pc' = LoopPc(i', Len(symbols))

\* profile = self.get_company_profile(symbol) and the append
FetchProfile(r) ==
    /\ pc = "profile"
    /\ LET g == Get(r)
           f == IF g.exc THEN Raises ELSE ProfileFrame(g.ret)
       IN  /\ Fetched("profile", i, r, g, Outcome(f))
           /\ all_profiles' = Appended(all_profiles, f, i)
           /\ IF f.exc
              THEN Catch
              ELSE /\ pc' = "quote"
                   /\ i' = i
    /\ UNCHANGED <<cred, client, symbols, all_quotes, all_historical,
                   all_data, idx, market_indexes, disk, disk0, written,
                   summary>>

\* quote = self.get_quote(symbol), the append and the print of the price
FetchQuote(r) ==
    /\ pc = "quote"
    /\ LET g == Get(r)
           f == IF g.exc THEN Raises ELSE QuoteFrame(g.ret)
           printRaises == ~f.exc /\ ~IsEmpty(f.rows) /\ ~PriceFormats(f.rows)
       IN  /\ Fetched("quote", i, r, g,
                      IF printRaises THEN "print_raise" ELSE Outcome(f))
           /\ all_quotes' = Appended(all_quotes, f, i)
           /\ IF f.exc \/ printRaises
              THEN Catch
              ELSE /\ pc' = "historical"
                   /\ i' = i
    /\ UNCHANGED <<cred, client, symbols, all_profiles, all_historical,
                   all_data, idx, market_indexes, disk, disk0, written,
                   summary>>

\* historical = self.get_historical_prices(symbol, days=365), the append,
\* and the end of the iteration
FetchHistorical(r) ==
    /\ pc = "historical"
    /\ LET g == Get(r)
           f == IF g.exc THEN Raises ELSE HistoricalFrame(g.ret, symbols[i])
       IN  /\ Fetched("historical", i, r, g, Outcome(f))
           /\ all_historical' = Appended(all_historical, f, i)
           /\ IF f.exc
              THEN Catch
              ELSE /\ i' = i + 1
                   /\ pc' = LoopPc(i + 1, Len(symbols))
    /\ UNCHANGED <<cred, client, symbols, all_profiles, all_quotes,
                   all_data, idx, market_indexes, disk, disk0, written,
                   summary>>

(* ------------------------- get_market_indexes -------------------------- *)

\* one pass of `for index in indexes`: the quote request and the extend;
\* an exception that leaves _get leaves fetch_all_data
FetchIndex(r) ==
    /\ pc = "indexes"
    /\ idx <= Len(indexes)
    /\ LET g == Get(r)
           grows == ~g.exc /\ Truthy(g.ret)
       IN  /\ Fetched("index", idx, r, g,
                      IF g.exc THEN "raise"
                      ELSE IF grows THEN "extended" ELSE "skipped")
           /\ all_data' = IF grows THEN all_data \o Extension(g.ret)
                          ELSE all_data
           /\ pc' = IF g.exc THEN "raised" ELSE "indexes"
    /\ idx' = idx + 1
    /\ UNCHANGED <<cred, client, symbols, i, all_profiles, all_quotes,
                   all_historical, market_indexes, disk, disk0, written,
                   summary>>

\* a to_csv that is not guarded by the emptiness test
SavedAlways(d, f, rows, cond) == [d EXCEPT ![f] = File(ToCsv(rows))]

\* df.to_csv(path, index=False) when `cond` holds, nothing otherwise
Saved(d, f, rows, cond) ==
    IF cond THEN [d EXCEPT ![f] = File(ToCsv(rows))] ELSE d

\* the files of fs whose condition holds
Marked(w, f, cond) == IF cond THEN w \cup {f} ELSE w

\* the return of get_market_indexes (all_data goes out of scope) and the
\* saving of its table; an exception of the constructor leaves
\* fetch_all_data
SaveIndexes ==
    /\ pc = "indexes"
    /\ idx > Len(indexes)
    /\ LET f == IndexFrame(all_data)
       IN  IF f.exc
           THEN /\ pc' = "raised"
                /\ UNCHANGED <<market_indexes, disk, written>>
           ELSE /\ market_indexes' = f.rows
                /\ disk' = Saved(disk, "market_indexes.csv", f.rows,
                                 ~IsEmpty(f.rows))
                /\ written' = Marked(written, "market_indexes.csv",
                                     ~IsEmpty(f.rows))
                /\ pc' = "persist"
    /\ all_data' = <<>>
    /\ last' = NoCall
    /\ UNCHANGED <<cred, client, symbols, i, all_profiles, all_quotes,
                   all_historical, idx, disk0, summary, requested, only403>>

(* ------------------------------ persist -------------------------------- *)

\* `if all_x:` a non-empty list of tables
Collected(acc) == acc # <<>>

\* the number of per-symbol tables instead of the number of rows
CountTables(acc) == Len(acc)

\* len(x_df) if all_x else 0
Count(acc) == IF Collected(acc) THEN Len(Concat(acc)) ELSE 0

\* the three `if all_x:` blocks and the return of the summary
Persist ==
    /\ pc = "persist"
    /\ disk' =
         Saved(Saved(Saved(disk,
                 "company_profiles.csv", Concat(all_profiles),
                 Collected(all_profiles)),
               "current_quotes.csv", Concat(all_quotes),
               Collected(all_quotes)),
             "historical_prices.csv", Concat(all_historical),
             Collected(all_historical))
    /\ written' =
         Marked(Marked(Marked(written,
                  "company_profiles.csv", Collected(all_profiles)),
                "current_quotes.csv", Collected(all_quotes)),
              "historical_prices.csv", Collected(all_historical))
    /\ summary' = [returned |-> TRUE,
                   profiles |-> Count(all_profiles),
                   quotes |-> Count(all_quotes),
                   historical_records |-> Count(all_historical)]
    /\ pc' = "done"
    /\ UNCHANGED <<cred, client, symbols, i, all_profiles, all_quotes,
                   all_historical, all_data, idx, market_indexes, disk0,
                   last, requested, only403>>

(* --------------------------- specification ----------------------------- *)

Next ==
    \/ LoadConfig
    \/ NewClient
    \/ \E syms \in SymbolLists : StartFetch(syms)
    \/ \E r \in Responses("profile") : FetchProfile(r)
    \/ \E r \in Responses("quote") : FetchQuote(r)
    \/ \E r \in Responses("historical") : FetchHistorical(r)
    \/ \E r \in Responses("index") : FetchIndex(r)
    \/ SaveIndexes
    \/ Persist

Spec == Init /\ [][Next]_vars

TypeOK ==
    /\ pc \in Phases
    /\ cred \in Creds
    /\ client \in BOOLEAN
    /\ symbols \in SymbolLists
    /\ i \in 1..(Len(symbols) + 1)
    /\ idx \in 1..(Len(indexes) + 1)
    /\ written \subseteq Files
    /\ requested \in BOOLEAN

(* ------------------------------ claims --------------------------------- *)

LoopEndpoints == {"profile", "quote", "historical"}

\* the latest step was a call of the loop whose iteration ended in `except`
CaughtNow == last.ep \in LoopEndpoints /\ last.out \in {"raise", "print_raise"}

\* the list position p has an entry in the accumulator acc
Contributes(acc, p) == \E j \in 1..Len(acc) : acc[j].pos = p

\* C1 as stated: an exception raised while a symbol is processed is caught,
\* the loop goes on with the next symbol, and that symbol has no rows in any
\* of the three accumulators.
C1_FailedSymbolHasNoRows ==
    CaughtNow =>
        /\ pc # "raised"
        /\ i = last.pos + 1
        /\ ~Contributes(all_profiles, last.pos)
        /\ ~Contributes(all_quotes, last.pos)
        /\ ~Contributes(all_historical, last.pos)

\* C1 as amended: the exception is caught and the loop goes on with the next
\* symbol (or leaves the loop after the last one); the symbol has no rows in
\* the accumulator of the call that raised nor of the calls after it (when
\* the print of the price raised: of the calls after the quote), whatever it
\* appended earlier in the iteration stays.
C1_FailedSymbolSkipsTheRest ==
    CaughtNow =>
        /\ pc = (IF last.pos < Len(symbols) THEN "profile" ELSE "indexes")
        /\ i = last.pos + 1
        /\ ~Contributes(all_historical, last.pos)
        /\ (last.out = "raise" /\ last.ep \in {"profile", "quote"}
               => ~Contributes(all_quotes, last.pos))
        /\ (last.out = "raise" /\ last.ep = "profile"
               => ~Contributes(all_profiles, last.pos))
        /\ (last.out = "print_raise" => Contributes(all_quotes, last.pos))

\* the quote of a symbol raised after its profile was appended, and the loop
\* is at the next symbol
C1_Witness ==
    /\ CaughtNow
    /\ last.ep = "quote"
    /\ last.out = "raise"
    /\ Contributes(all_profiles, last.pos)
    /\ pc = "profile"

\* C2: after every call of _get, whatever its outcome, the pacing delay has
\* been executed.
C2_EveryCallIsPaced == last.ep # "none" => last.slept

\* C3: fetch_all_data never raises, for every symbol list and every
\* response _get can return without raising.
C3_FetchAllDataNeverRaises == pc # "raised"

\* C4: _get lets no failure reach its caller: 403 gives the absent result
\* and no log line, another error status or a network failure gives the
\* absent result and a log line; a caller handed the absent result gets an
\* empty table (get_market_indexes: adds nothing), never an exception.
C4_GetAbsorbsFailures ==
    last.ep # "none" =>
        /\ ~last.exc
        /\ (last.status = "forbidden" => last.absent /\ ~last.logged)
        /\ (last.status \in {"error", "network"} => last.absent /\ last.logged)
        /\ (last.absent =>
               /\ last.out = (IF last.ep = "index" THEN "skipped" ELSE "empty")
               /\ pc # "raised")

\* a call was answered with an error status, and its adapter gave an empty
\* table
C4_Witness ==
    /\ last.ep = "historical"
    /\ last.status = "error"
    /\ last.out = "empty"
    /\ pc \in {"profile", "indexes"}

\* the rows of the tables before the j-th one
RECURSIVE RowsBefore(_, _)
RowsBefore(acc, j) ==
    IF j <= 1 THEN 0 ELSE RowsBefore(acc, j - 1) + Len(acc[j - 1].rows)

HistoricalFile == disk["historical_prices.csv"]

\* C5: the combined historical table is the concatenation, in the order of
\* the symbol list, of the non-empty per-symbol historical tables, each in
\* its own row order, and every row carries the symbol that was queried.
C5_HistoricalInSymbolOrder ==
    /\ \A j \in 1..Len(all_historical) :
          LET e == all_historical[j]
          IN  /\ e.rows # <<>>
              /\ e.pos \in 1..Len(symbols)
              /\ (j > 1 => all_historical[j - 1].pos < e.pos)
              /\ \A m \in 1..Len(e.rows) :
                    /\ e.rows[m].symbol = symbols[e.pos]
                    /\ e.rows[m].k = m
    /\ (last.ep = "historical" /\ last.out = "rows" =>
           /\ all_historical # <<>>
           /\ all_historical[Len(all_historical)].pos = last.pos
           /\ Len(all_historical[Len(all_historical)].rows) = MaxRows)
    /\ ("historical_prices.csv" \in written =>
           LET rows == CsvRows(HistoricalFile.lines)
               n == Len(all_historical)
           IN  /\ HistoricalFile.exists
               /\ Len(rows) = RowsBefore(all_historical, n + 1)
               /\ \A j \in 1..n : \A m \in 1..Len(all_historical[j].rows) :
                     rows[RowsBefore(all_historical, j) + m]
                         = all_historical[j].rows[m])

\* symbols [A, B, C] of which only B and C have historical data: the file
\* holds the rows of B, then the rows of C
C5_Witness ==
    /\ pc = "done"
    /\ symbols = <<"A", "B", "C">>
    /\ "historical_prices.csv" \in written
    /\ Len(all_historical) = 2
    /\ all_historical[1].pos = 2
    /\ all_historical[2].pos = 3
    /\ CsvRows(HistoricalFile.lines)[1].symbol = "B"
    /\ CsvRows(HistoricalFile.lines)[MaxRows + 1].symbol = "C"

Categories == {"profiles", "quotes", "historical_records"}

FileOf(cat) ==
    CASE cat = "profiles" -> "company_profiles.csv"
      [] cat = "quotes" -> "current_quotes.csv"
      [] OTHER -> "historical_prices.csv"

AccOf(cat) ==
    CASE cat = "profiles" -> all_profiles
      [] cat = "quotes" -> all_quotes
      [] OTHER -> all_historical

\* C6: when fetch_all_data has returned, the summary value of a category is
\* the number of rows of the file written for it in this run, read back, and
\* it is 0 exactly when nothing was accumulated for the category.
C6_SummaryCountsWrittenRows ==
    pc = "done" =>
        /\ summary.returned
        /\ \A cat \in Categories :
              /\ (FileOf(cat) \in written =>
                     /\ disk[FileOf(cat)].exists
                     /\ summary[cat] = Len(CsvRows(disk[FileOf(cat)].lines)))
              /\ (FileOf(cat) \notin written => summary[cat] = 0)
              /\ (summary[cat] = 0 <=> AccOf(cat) = <<>>)

\* one symbol with a one-row profile, a one-row quote and a historical
\* array of MaxRows days
C6_Witness ==
    /\ pc = "done"
    /\ symbols = <<"A">>
    /\ summary = [returned |-> TRUE, profiles |-> 1, quotes |-> 1,
                  historical_records |-> MaxRows]

\* C7: in a run that has ended, each output file was written if and only if
\* its table or accumulator is non-empty; a run in which every call was
\* answered 403 writes no file, returns zeros and raises nothing.
C7_WrittenIffCollected ==
    pc \in {"done", "raised"} =>
        /\ \A cat \in Categories :
              FileOf(cat) \in written <=> AccOf(cat) # <<>>
        /\ (pc = "done" =>
               ("market_indexes.csv" \in written <=> market_indexes # <<>>))
        /\ (only403 =>
               /\ pc = "done"
               /\ written = {}
               /\ summary = [returned |-> TRUE, profiles |-> 0, quotes |-> 0,
                             historical_records |-> 0])

\* C8: with the API key unset or empty, the configuration fails to load, no
\* client is constructed and no request is issued.
C8_NoKeyNoRequest ==
    cred \in {NoCred, ""} =>
        /\ pc \in {"boot", "config_failed"}
        /\ ~client
        /\ ~requested

\* the key is set to the empty string and the configuration has failed
C8_Witness == cred = "" /\ pc = "config_failed"

\* the states of the workflow, in their order
Rank(p) ==
    CASE p = "boot" -> 0
      [] p \in {"configured", "config_failed"} -> 1
      [] p = "ready" -> 2
      [] p \in LoopEndpoints -> 3
      [] p = "indexes" -> 4
      [] p = "persist" -> 5
      [] OTHER -> 6

EndpointRank(ep) ==
    CASE ep = "profile" -> 0 [] ep = "quote" -> 1 [] OTHER -> 2

\* the place of a call in the single pass: the calls of the loop by list
\* position and endpoint, then the index calls
UnitKey(c) ==
    IF c.ep = "index"
    THEN 3 * (Len(symbols) + 1) + c.pos
    ELSE 3 * c.pos + EndpointRank(c.ep)

C9_Order ==
    /\ (pc = "indexes" \/ last.ep = "index" => i = Len(symbols) + 1)
    /\ (pc \in {"persist", "done"} => idx = Len(indexes) + 1)
    /\ (written \cap CategoryFiles # {} => pc = "done")
    /\ ("market_indexes.csv" \in written => pc \in {"persist", "done"})

C9_Step ==
    /\ Rank(pc') >= Rank(pc)
    /\ i' >= i
    /\ idx' >= idx
    /\ (last.ep # "none" /\ last'.ep # "none" => UnitKey(last') > UnitKey(last))

\* C9: a run moves forward only, through not started, iterating symbols,
\* fetching indexes, persisting, complete; the index quotes are fetched once,
\* after the last symbol and before a combined file is written; every unit
\* of work (list position and endpoint, or index) is fetched at most once,
\* failed or not.
C9_LinearSinglePass == [](C9_Order) /\ [][C9_Step]_vars

\* a run over several symbols is complete and has written a combined file
C9_Witness ==
    /\ pc = "done"
    /\ Len(symbols) >= 2
    /\ written \cap CategoryFiles # {}
    /\ i = Len(symbols) + 1

\* the table a file is written from
IsEmptyFor(f) ==
    CASE f = "market_indexes.csv" -> market_indexes = <<>>
      [] f = "company_profiles.csv" -> all_profiles = <<>>
      [] f = "current_quotes.csv" -> all_quotes = <<>>
      [] OTHER -> all_historical = <<>>

\* C10: a run leaves the file of a category whose table or accumulator is
\* empty as it found it: not deleted, not truncated, not rewritten.
C10_EmptyCategoryLeavesFile ==
    \A f \in Files : IsEmptyFor(f) => disk[f] = disk0[f]

\* the run is complete, its summary reports no profile, and the profile file
\* of an earlier run is still there with its rows
C10_Witness ==
    /\ pc = "done"
    /\ summary.profiles = 0
    /\ disk["company_profiles.csv"].exists
    /\ Len(CsvRows(disk["company_profiles.csv"].lines)) > 0
    /\ "company_profiles.csv" \notin written

====
